---- MODULE Spec2Model ----
(***************************************************************************)
(* Model of the index builder and update detector of idfx                  *)
(* (src/src/idfx/controller.py, src/src/idfx/cli.py).                      *)
(*                                                                         *)
(* Strings are sequences of one-character strings, so that strip(), lower()*)
(* and float() are computed character by character.  Chapter numbers are   *)
(* kept in tenths (4.5 is 45) together with their Python type, because the *)
(* code tests isinstance(old, float) and isinstance(old, int).             *)
(***************************************************************************)
EXTENDS Integers, Sequences, FiniteSets, TLC

\* ---------------------------------------------------------------- bounds
\* sources configured in one build
MaxSources == 2
\* raw records listed in one build, over all its sources
MaxRecords == 2
\* titles in the list handed to check, pairs in the list handed to
\* check_multiple, titles in the manga file
MaxTitles == 2
\* starts of main on the same file and database
MaxRuns == 2

\* ------------------------------------------------------- python values
None == [ty |-> "none", v |-> 0]
IntV(n) == [ty |-> "int", v |-> n * 10]
FloatV(t) == [ty |-> "float", v |-> t]
IsFloat(x) == x.ty = "float"
IsInt(x) == x.ty = "int"
\* truth value of an Optional[float]: None and 0 are false
Truthy(x) == x.ty # "none" /\ x.v # 0

NoName == <<"<None>">>
NoUuid == "<None>"
NoTime == 0
EmptyStr == <<>>
EmptyDict == <<>>

\* ------------------------------------------------------------- strings
RECURSIVE LStrip(_)
LStrip(s) ==
    IF Len(s) > 0 /\ s[1] = " " THEN LStrip(Tail(s)) ELSE s

RECURSIVE RStrip(_)
RStrip(s) ==
    IF Len(s) > 0 /\ s[Len(s)] = " "
    THEN RStrip(SubSeq(s, 1, Len(s) - 1))
    ELSE s

Strip(s) == RStrip(LStrip(s))

LowerChar(c) ==
    CASE c = "X" -> "x"
      [] c = "Y" -> "y"
      [] OTHER -> c

Lower(s) == [i \in 1..Len(s) |-> LowerChar(s[i])]

DigitChars == <<"0", "1", "2", "3", "4", "5", "6", "7", "8", "9">>
IsDigit(c) == \E d \in 1..10 : DigitChars[d] = c
DigitVal(c) == (CHOOSE d \in 1..10 : DigitChars[d] = c) - 1

RECURSIVE DigitsVal(_, _)
DigitsVal(s, acc) ==
    IF Len(s) = 0 THEN acc ELSE DigitsVal(Tail(s), acc * 10 + DigitVal(s[1]))

\* float(s.strip()), in tenths: [ok |-> parsed, v |-> value]; ok = FALSE is
\* the ValueError.  Accepted are [sign] digits [. digits] with at least one
\* digit; the value is kept to the first decimal.
Unparsable == [ok |-> FALSE, v |-> 0]
Negated(p) == [ok |-> p.ok, v |-> 0 - p.v]

ParseDigits(ip, fp) ==
    IF /\ Len(ip) + Len(fp) > 0
       /\ \A i \in 1..Len(ip) : IsDigit(ip[i])
       /\ \A i \in 1..Len(fp) : IsDigit(fp[i])
    THEN [ok |-> TRUE,
          v |-> DigitsVal(ip, 0) * 10 + (IF Len(fp) > 0 THEN DigitVal(fp[1]) ELSE 0)]
    ELSE Unparsable

\* position of the first decimal point, Len + 1 without one
DotOf(body) ==
    IF \E i \in 1..Len(body) : body[i] = "."
    THEN CHOOSE i \in 1..Len(body) :
            body[i] = "." /\ \A j \in 1..(i - 1) : body[j] # "."
    ELSE Len(body) + 1

SplitAt(body, dot) ==
    ParseDigits(SubSeq(body, 1, dot - 1), SubSeq(body, dot + 1, Len(body)))

ParseUnsigned(body) == SplitAt(body, DotOf(body))

ParseSigned(t) ==
    IF Len(t) > 0 /\ t[1] = "-" THEN Negated(ParseUnsigned(Tail(t)))
    ELSE IF Len(t) > 0 /\ t[1] = "+" THEN ParseUnsigned(Tail(t))
    ELSE ParseUnsigned(t)

ParseFloat(s) == ParseSigned(Strip(s))

\* ---------------------------------------------------------- raw records
\* A field of a scraped record: absent, a scalar, or a list of alternatives.
Absent == [has |-> FALSE, list |-> FALSE, v |-> <<>>]
Scalar(x) == [has |-> TRUE, list |-> FALSE, v |-> <<x>>]
ListOf(xs) == [has |-> TRUE, list |-> TRUE, v |-> xs]

\* links: a relative path or an absolute url on some host
Rel(p) == [abs |-> FALSE, host |-> 0, path |-> p]
Abs(h, p) == [abs |-> TRUE, host |-> h, path |-> p]
NoLink == [host |-> 0, path |-> ""]

\* requests.compat.urljoin(scraper.url, link)
UrlJoin(base, l) ==
    IF l.abs THEN [host |-> l.host, path |-> l.path]
    ELSE [host |-> base, path |-> l.path]

\* "if value == list -> assumes correct one at index 0"
FirstOf(f) ==
    IF f.list /\ Len(f.v) > 0 THEN Scalar(f.v[1]) ELSE f

\* f"{a['name']}" : an empty list is left in place and prints as []
StrOf(f) == IF f.list THEN <<"[", "]">> ELSE f.v[1]
LinkOf(f) == IF f.list THEN Rel("[]") ELSE f.v[1]

\* dict.setdefault(key, value)
SetDefault(d, key, value) ==
    IF key \in DOMAIN d THEN d
    ELSE [k \in DOMAIN d \cup {key} |-> IF k = key THEN value ELSE d[k]]

\* "if num_candidate > number: number = num_candidate"
Larger(p, number) ==
    IF p.ok /\ p.v > number.v THEN FloatV(p.v) ELSE number

\* the loop over the number candidates, number starting at the sentinel -1
RECURSIVE MaxCandidate(_, _)
MaxCandidate(numbers, number) ==
    IF Len(numbers) = 0 THEN number
    ELSE MaxCandidate(Tail(numbers), Larger(ParseFloat(numbers[1]), number))

\* "if number == -1: number = None"
SentinelToNone(number) ==
    IF number.v = IntV(-1).v THEN None ELSE number

\* NumberOf without "if number == -1: number = None"
NumberOf_KeepSentinel(a) ==
    IF ~a.number.has THEN None
    ELSE MaxCandidate(a.number.v, IntV(-1))

\* the value of number when "if not number" is reached
NumberOf(a) ==
    IF ~a.number.has THEN None
    ELSE SentinelToNone(MaxCandidate(a.number.v, IntV(-1)))

RecordName(a) ==
    IF a.name.has THEN Strip(StrOf(FirstOf(a.name))) ELSE EmptyStr

RecordLink(a, base) ==
    IF a.link.has THEN UrlJoin(base, LinkOf(FirstOf(a.link))) ELSE NoLink

RecordKey(a) == Lower(RecordName(a))

\* "old = mangas[key]['chapter']" to the end of the loop body
KeepMaximum(mangas, key, number, link) ==
    IF ~IsFloat(mangas[key].chapter) \/ ~IsInt(mangas[key].chapter) THEN mangas
    ELSE IF mangas[key].chapter.v < number.v
         THEN [mangas EXCEPT ![key].chapter = number, ![key].url = link]
         ELSE mangas

\* the loop body for a record that has a number
ScrapAccepted(mangas, number, name, link) ==
    KeepMaximum(SetDefault(mangas, Lower(name),
                           [chapter |-> IntV(0), url |-> link, name |-> name]),
                Lower(name), number, link)

\* one iteration of "for a in res.scraped['chapter']" on the partial map
ScrapRecord(mangas, a, base) ==
    IF ~Truthy(NumberOf(a)) THEN mangas
    ELSE ScrapAccepted(mangas, NumberOf(a), RecordName(a), RecordLink(a, base))

RECURSIVE ScrapRecords(_, _, _)
ScrapRecords(mangas, listing, base) ==
    IF Len(listing) = 0 THEN mangas
    ELSE ScrapRecords(ScrapRecord(mangas, listing[1], base), Tail(listing), base)

\* What a source hands back: scrap() raising WEBConnectException, scrap()
\* raising anything else, an exception after the try block (shrink, or the
\* membership test on a listing that is not a container), a listing without
\* the "chapter" key, or a listing.
Outcomes == {"ok", "connect", "error", "preprocess_error", "no_chapter"}

\* _do_scrap: [raised, none, m]
DoScrap(base, resp) ==
    IF resp.outcome \in {"connect", "error"}
    THEN [raised |-> FALSE, none |-> TRUE, m |-> EmptyDict]
    ELSE IF resp.outcome = "preprocess_error"
    THEN [raised |-> TRUE, none |-> TRUE, m |-> EmptyDict]
    ELSE IF resp.outcome = "no_chapter"
    THEN [raised |-> FALSE, none |-> TRUE, m |-> EmptyDict]
    ELSE [raised |-> FALSE, none |-> FALSE,
          m |-> ScrapRecords(EmptyDict, resp.chapter, base)]

\* ----------------------------------------------------------- the index
\* Manga(name=..., chapter=...) as create_index builds it
Manga(uuid, name, chapter) ==
    [uuid |-> uuid, name |-> name, chapter |-> chapter,
     urls |-> <<>>, updated |-> NoTime]

\* "if m.chapter and m.chapter == value['chapter']: m.urls.append(...)"
ExtendOnEqual(m, value) ==
    IF Truthy(m.chapter) /\ m.chapter.v = value.chapter.v
    THEN [m EXCEPT !.urls = Append(m.urls, value.url)]
    ELSE m

\* "if not m.chapter or m.chapter < value['chapter']: ..."
ReplaceOnHigher(m, value) ==
    IF ~Truthy(m.chapter) \/ m.chapter.v < value.chapter.v
    THEN [m EXCEPT !.urls = <<value.url>>, !.chapter = value.chapter]
    ELSE m

\* "m = index[key]" to the end of the loop body
FoldEntry(m, value, now) ==
    ReplaceOnHigher(ExtendOnEqual([m EXCEPT !.updated = now], value), value)

FoldInto(idx, key, value, now) ==
    [idx EXCEPT ![key] = FoldEntry(idx[key], value, now)]

\* body of "for key, value in result.items()"
FoldItem(idx, key, value, now) ==
    FoldInto(SetDefault(idx, key, Manga(NoUuid, value.name, value.chapter)),
             key, value, now)

RECURSIVE FoldItems(_, _, _, _)
FoldItems(idx, m, keys, now) ==
    IF keys = {} THEN idx
    ELSE LET k == CHOOSE k \in keys : TRUE
         IN  FoldItems(FoldItem(idx, k, m[k], now), m, keys \ {k}, now)

\* body of "for result in results": None and {} are skipped
FoldResult(idx, result, now) ==
    IF result.none \/ DOMAIN result.m = {} THEN idx
    ELSE FoldItems(idx, result.m, DOMAIN result.m, now)

\* ------------------------------------------------------------ check()
\* "m.name is None or m.name.lower() not in web_mangas", negated
Known(name, web) == name # NoName /\ Lower(name) \in DOMAIN web

\* the comparison of check with "<=" in the place of "<"
IsNewer_OrEqual(chapter, w) ==
    /\ chapter.ty # "none"
    /\ w.chapter.ty # "none"
    /\ chapter.v <= w.chapter.v

\* "m.chapter is not None and w.chapter is not None and m.chapter < w.chapter"
IsNewer(chapter, w) ==
    /\ chapter.ty # "none"
    /\ w.chapter.ty # "none"
    /\ chapter.v < w.chapter.v

\* The returned list holds the index's own Manga objects, so it is modelled
\* as a list of index keys; "w.uuid = m.uuid" writes into the index.
RECURSIVE CheckLoop(_, _, _)
CheckLoop(user_titles, web, res) ==
    IF Len(user_titles) = 0 THEN [web |-> web, res |-> res]
    ELSE IF ~Known(user_titles[1].name, web)
    THEN CheckLoop(Tail(user_titles), web, res)
    ELSE IF IsNewer(user_titles[1].chapter, web[Lower(user_titles[1].name)])
    THEN CheckLoop(Tail(user_titles),
                   [web EXCEPT ![Lower(user_titles[1].name)].uuid = user_titles[1].uuid],
                   Append(res, Lower(user_titles[1].name)))
    ELSE CheckLoop(Tail(user_titles), web, res)

\* ---------------------------------------------------- check_multiple()
\* the comparison of check_multiple with "<=" in the place of "<"
IsNewerMultiple_OrEqual(chapter, w) ==
    w.chapter.ty # "none" /\ chapter.v <= w.chapter.v

\* "w.chapter is not None and chapter < w.chapter"
IsNewerMultiple(chapter, w) ==
    w.chapter.ty # "none" /\ chapter.v < w.chapter.v

\* "if uuid not in res: res[uuid] = []" and the conditional append
AppendFor(res, uuid, chapter, key, w) ==
    IF IsNewerMultiple(chapter, w)
    THEN [SetDefault(res, uuid, <<>>) EXCEPT
             ![uuid] = Append(SetDefault(res, uuid, <<>>)[uuid], key)]
    ELSE SetDefault(res, uuid, <<>>)

\* "for uuid, chapter in uuid_chapter"
RECURSIVE ReaderLoop(_, _, _, _)
ReaderLoop(uuid_chapter, key, w, res) ==
    IF Len(uuid_chapter) = 0 THEN res
    ELSE ReaderLoop(Tail(uuid_chapter), key, w,
                    AppendFor(res, uuid_chapter[1].uuid, uuid_chapter[1].chapter, key, w))

\* "for manga, uuid_chapter in user_mangas"; "w.uuid = manga.uuid" writes
\* into the index whatever the chapters are
RECURSIVE CheckMultipleLoop(_, _, _)
CheckMultipleLoop(pairs, web, res) ==
    IF Len(pairs) = 0 THEN [web |-> web, res |-> res]
    ELSE IF ~Known(pairs[1].manga.name, web)
    THEN CheckMultipleLoop(Tail(pairs), web, res)
    ELSE CheckMultipleLoop(
             Tail(pairs),
             [web EXCEPT ![Lower(pairs[1].manga.name)].uuid = pairs[1].manga.uuid],
             ReaderLoop(pairs[1].uuid_chapter, Lower(pairs[1].manga.name),
                        web[Lower(pairs[1].manga.name)], res))

\* ------------------------------------------------------------- inputs
RECURSIVE SeqsUpTo(_, _)
SeqsUpTo(S, n) ==
    IF n = 0 THEN {<<>>}
    ELSE LET shorter == SeqsUpTo(S, n - 1)
         IN  shorter \cup {Append(s, x) : s \in {t \in shorter : Len(t) = n - 1}, x \in S}

RawRecord(name, number, link) == [name |-> name, number |-> number, link |-> link]

RawRecords ==
    { RawRecord(Scalar(<<"X">>), Scalar(<<" ", "3">>), Scalar(Rel("a"))),
      RawRecord(ListOf(<<<<" ", "x">>, <<"Y">>>>),
                ListOf(<<<<"a", "b", "c">>, <<"4", ".", "5">>, <<"3">>>>),
                Scalar(Rel("b"))),
      RawRecord(Scalar(<<"Y", " ">>), Scalar(<<"a", "b", "c">>), Scalar(Rel("a"))),
      RawRecord(Scalar(<<"Y">>), Absent, Absent),
      RawRecord(Absent, ListOf(<<<<"-", "2">>, <<"a", "b", "c">>>>), Scalar(Rel("b"))),
      RawRecord(Scalar(<<"X">>), ListOf(<<<<"0">>>>), Scalar(Abs(9, "c"))) }

Listings == SeqsUpTo(RawRecords, MaxRecords)

Responses ==
    {[outcome |-> "ok", chapter |-> l] : l \in Listings}
        \cup {[outcome |-> o, chapter |-> <<>>] : o \in Outcomes \ {"ok"}}

NoResponse == [outcome |-> "pending", chapter |-> <<>>]
NotReturned == [raised |-> FALSE, none |-> TRUE, m |-> EmptyDict]

ReaderTitles ==
    { [uuid |-> "u1", name |-> <<"X">>, chapter |-> FloatV(20)],
      [uuid |-> "u2", name |-> <<"x">>, chapter |-> FloatV(-10)],
      [uuid |-> NoUuid, name |-> NoName, chapter |-> FloatV(20)] }

ReaderLists == {<<>>} \cup {<<t>> : t \in ReaderTitles}

ThreadingModes == {"none", "pool", "threaded"}

\* -------------------------------------------------------------- state
VARIABLES
    scrapers,        \* self.scrapers: the base url (host) of each source
    threading_mode,  \* self.threading_mode
    pc,              \* position of the caller of create_index
    task,            \* per source: "wait", "done" or "raised"
    scraped,         \* per source: what scrap()/shrink() handed back
    returned,        \* per source: the value _do_scrap returned
    results,         \* the results list of create_index
    index,           \* the index dict of create_index
    folded,          \* how many elements of results have been folded
    clock,           \* datetime.utcnow()
    ret,             \* "unset", "None" or "index": what create_index returned
    mangas,          \* the reader's titles handed to check
    new,             \* the list check returned (keys of index)
    earlier,         \* the list an earlier call of check returned
    user_mangas,     \* the argument of check_multiple
    multi,           \* the dict check_multiple returned: reader -> keys of index
    user,            \* user.uuid of the loaded user
    file,            \* the mangas of the manga file on disk
    tbl_mangas,      \* the rows of table mangas
    tbl_read,        \* the rows of table mangas_read of the user
    db_mangas,       \* what read_get returned: the database copies
    db_dict,         \* lower-cased name -> position in db_mangas
    file_dict,       \* lower-cased name -> position in mangas
    common,          \* keys of "db_set & file_set" not yet merged
    missing_db,      \* positions in mangas still to be created in the database
    missing_file,    \* positions in db_mangas still to be appended to mangas
    upd_db,          \* the database copies queued for an update
    dirty,           \* main's dirty flag
    log,             \* the logger.debug lines of the merge loop
    calls,           \* the calls of create_manga of this run
    run,             \* how many times main has been started
    error,           \* the exception that left main or the call, or "none"
    opts             \* the option blocks main has been through before --sync

vars == <<scrapers, threading_mode, pc, task, scraped, returned, results,
          index, folded, clock, ret, mangas, new, earlier, user_mangas, multi,
          user, file, tbl_mangas, tbl_read, db_mangas, db_dict, file_dict,
          common, missing_db, missing_file, upd_db, dirty, log, calls, run,
          error, opts>>

\* the state of the --sync step of main
sync_vars == <<user, file, tbl_mangas, tbl_read, db_mangas, db_dict, file_dict,
               common, missing_db, missing_file, upd_db, dirty, log, calls, run,
               error, opts>>

\* what create_index and the --check step of main leave alone
other_vars == <<earlier, user_mangas, multi, sync_vars>>

\* main without --sync, no file and no database rows
NoSync ==
    /\ user = NoUuid
    /\ file = <<>>
    /\ tbl_mangas = <<>>
    /\ tbl_read = <<>>
    /\ db_mangas = <<>>
    /\ db_dict = EmptyDict
    /\ file_dict = EmptyDict
    /\ common = {}
    /\ missing_db = <<>>
    /\ missing_file = <<>>
    /\ upd_db = <<>>
    /\ dirty = FALSE
    /\ log = <<>>
    /\ calls = <<>>
    /\ run = 1
    /\ error = "none"
    /\ opts = {}

Sources == 1..Len(scrapers)

\* the records listed so far in this build by the sources 1..i
RECURSIVE Listed(_)
Listed(i) == IF i = 0 THEN 0 ELSE Len(scraped[i].chapter) + Listed(i - 1)

\* the responses that keep the build within MaxRecords listed records
Affordable ==
    {resp \in Responses : Listed(Len(scrapers)) + Len(resp.chapter) <= MaxRecords}

Init ==
    /\ scrapers \in {[i \in 1..n |-> i] : n \in 0..MaxSources}
    /\ threading_mode \in ThreadingModes
    /\ pc = "idle"
    /\ task = [i \in Sources |-> "wait"]
    /\ scraped = [i \in Sources |-> NoResponse]
    /\ returned = [i \in Sources |-> NotReturned]
    /\ results = <<>>
    /\ index = EmptyDict
    /\ folded = 0
    /\ clock = 1
    /\ ret = "unset"
    /\ mangas = <<>>
    /\ new = <<>>
    /\ earlier = <<>>
    /\ user_mangas = <<>>
    /\ multi = EmptyDict
    /\ NoSync

\* create_index, up to the choice of the mode
CreateIndex ==
    /\ pc = "idle"
    /\ IF Len(scrapers) = 0
       THEN pc' = "done" /\ ret' = "None"
       ELSE pc' = "scrap" /\ ret' = ret
    /\ UNCHANGED <<scrapers, threading_mode, task, scraped, returned, results,
                   index, folded, clock, mangas, new>>
    /\ UNCHANGED other_vars

\* sequential mode: the list comprehension calls _do_scrap source by source;
\* an exception leaving _do_scrap leaves create_index
SeqScrap ==
    /\ pc = "scrap"
    /\ threading_mode = "none"
    /\ Len(results) < Len(scrapers)
    /\ \E resp \in Affordable :
         /\ scraped' = [scraped EXCEPT ![Len(results) + 1] = resp]
         /\ returned' = [returned EXCEPT ![Len(results) + 1] =
                            DoScrap(scrapers[Len(results) + 1], resp)]
    /\ IF returned'[Len(results) + 1].raised
       THEN /\ task' = [task EXCEPT ![Len(results) + 1] = "raised"]
            /\ pc' = "raised"
            /\ results' = results
       ELSE /\ task' = [task EXCEPT ![Len(results) + 1] = "done"]
            /\ pc' = IF Len(results) + 1 = Len(scrapers) THEN "fold" ELSE pc
            /\ results' = Append(results, returned'[Len(results) + 1])
    /\ UNCHANGED <<scrapers, threading_mode, index, folded, clock, ret, mangas, new>>
    /\ UNCHANGED other_vars

\* pool mode: a worker of the ThreadPool runs _do_scrap for one source
PoolTask(i) ==
    /\ pc = "scrap"
    /\ threading_mode = "pool"
    /\ task[i] = "wait"
    /\ \E resp \in Affordable :
         /\ scraped' = [scraped EXCEPT ![i] = resp]
         /\ returned' = [returned EXCEPT ![i] = DoScrap(scrapers[i], resp)]
    /\ task' = [task EXCEPT ![i] = IF returned'[i].raised THEN "raised" ELSE "done"]
    /\ UNCHANGED <<scrapers, threading_mode, pc, results, index, folded, clock,
                   ret, mangas, new>>
    /\ UNCHANGED other_vars

\* pool.map returns once every job is done: the results in source order, or
\* the exception of a job
PoolMap ==
    /\ pc = "scrap"
    /\ threading_mode = "pool"
    /\ \A i \in Sources : task[i] # "wait"
    /\ IF \E i \in Sources : task[i] = "raised"
       THEN pc' = "raised" /\ results' = results
       ELSE pc' = "fold" /\ results' = [i \in Sources |-> returned[i]]
    /\ UNCHANGED <<scrapers, threading_mode, task, scraped, returned, index,
                   folded, clock, ret, mangas, new>>
    /\ UNCHANGED other_vars

\* threaded mode: fn(scraper) appends the return value of _do_scrap; an
\* exception ends the thread without an append
ThreadTask(i) ==
    /\ pc = "scrap"
    /\ threading_mode = "threaded"
    /\ task[i] = "wait"
    /\ \E resp \in Affordable :
         /\ scraped' = [scraped EXCEPT ![i] = resp]
         /\ returned' = [returned EXCEPT ![i] = DoScrap(scrapers[i], resp)]
    /\ task' = [task EXCEPT ![i] = IF returned'[i].raised THEN "raised" ELSE "done"]
    /\ results' = IF returned'[i].raised THEN results
                  ELSE Append(results, returned'[i])
    /\ UNCHANGED <<scrapers, threading_mode, pc, index, folded, clock, ret,
                   mangas, new>>
    /\ UNCHANGED other_vars

\* "for t in threads: t.join()"
ThreadJoin ==
    /\ pc = "scrap"
    /\ threading_mode = "threaded"
    /\ \A i \in Sources : task[i] # "wait"
    /\ pc' = "fold"
    /\ UNCHANGED <<scrapers, threading_mode, task, scraped, returned, results,
                   index, folded, clock, ret, mangas, new>>
    /\ UNCHANGED other_vars

\* one iteration of "for result in results"
FoldStep ==
    /\ pc = "fold"
    /\ folded < Len(results)
    /\ index' = FoldResult(index, results[folded + 1], clock)
    /\ folded' = folded + 1
    /\ clock' = clock + 1
    /\ UNCHANGED <<scrapers, threading_mode, pc, task, scraped, returned,
                   results, ret, mangas, new>>
    /\ UNCHANGED other_vars

\* "return index or None"
Return_NoneWhenEmpty ==
    /\ pc = "fold"
    /\ folded = Len(results)
    /\ pc' = "done"
    /\ ret' = IF DOMAIN index = {} THEN "None" ELSE "index"
    /\ UNCHANGED <<scrapers, threading_mode, task, scraped, returned, results,
                   index, folded, clock, mangas, new>>
    /\ UNCHANGED other_vars

\* "return index"
Return ==
    /\ pc = "fold"
    /\ folded = Len(results)
    /\ pc' = "done"
    /\ ret' = "index"
    /\ UNCHANGED <<scrapers, threading_mode, task, scraped, returned, results,
                   index, folded, clock, mangas, new>>
    /\ UNCHANGED other_vars

\* main, --check: "if temp_index is not None: new = instance.check(...)"
Check ==
    /\ pc = "done"
    /\ ret = "index"
    /\ mangas' \in ReaderLists
    /\ index' = CheckLoop(mangas', index, <<>>).web
    /\ new' = CheckLoop(mangas', index, <<>>).res
    /\ pc' = "checked"
    /\ UNCHANGED <<scrapers, threading_mode, task, scraped, returned, results,
                   folded, clock, ret>>
    /\ UNCHANGED other_vars

Next ==
    \/ CreateIndex
    \/ SeqScrap
    \/ \E i \in Sources : PoolTask(i)
    \/ PoolMap
    \/ \E i \in Sources : ThreadTask(i)
    \/ ThreadJoin
    \/ FoldStep
    \/ Return
    \/ Check

Spec == Init /\ [][Next]_vars

\* ======================================================================
\* check and check_multiple, called with arguments of their signatures
\* ======================================================================
\* the Manga objects of an index: List[str] urls, a chapter or None
IndexEntry(name, chapter) ==
    [Manga(NoUuid, name, chapter) EXCEPT !.urls = <<[host |-> 1, path |-> "a"]>>,
                                         !.updated = 1]

IndexChapters == {None, FloatV(50)}

\* Dict[str, Manga]: every subset of the keys "x" and "", the key of a
\* record scraped without a name
WebIndexes ==
    {EmptyDict}
        \cup {(<<"x">> :> IndexEntry(<<"X">>, c)) : c \in IndexChapters}
        \cup {(EmptyStr :> IndexEntry(EmptyStr, c)) : c \in IndexChapters}
        \cup {(<<"x">> :> IndexEntry(<<"X">>, c)) @@ (EmptyStr :> IndexEntry(EmptyStr, d)) :
                 c \in IndexChapters, d \in IndexChapters}

TitleNames == {<<"X">>, <<"x">>, EmptyStr, NoName}
TitleChapters == {None, FloatV(20), FloatV(50), FloatV(70)}
NamedChapters == {[name |-> n, chapter |-> c] : n \in TitleNames, c \in TitleChapters}

\* the uuid of the title at each position of a reader's list
Uuids == <<"u1", "u2", "u3", "u4">>
WithUuids(s) ==
    [i \in 1..Len(s) |-> [uuid |-> Uuids[i], name |-> s[i].name, chapter |-> s[i].chapter]]

\* List[Manga]
TitleLists == {WithUuids(s) : s \in SeqsUpTo(NamedChapters, MaxTitles)}

\* the lists handed to a second call of check
LaterLists ==
    {<<>>} \cup {<<[uuid |-> "u9", name |-> n, chapter |-> c]>> :
                    n \in {<<"X">>, EmptyStr}, c \in {FloatV(20), FloatV(70)}}

\* List[Tuple[str, int]]: readers and the chapter each has read
ReaderChapter(uuid, chapter) == [uuid |-> uuid, chapter |-> chapter]
UuidChapters ==
    { <<>>,
      <<ReaderChapter("r1", FloatV(20))>>,
      <<ReaderChapter("r1", FloatV(50))>>,
      <<ReaderChapter("r1", FloatV(20)), ReaderChapter("r2", FloatV(70))>>,
      <<ReaderChapter("r2", FloatV(50)), ReaderChapter("r1", FloatV(20))>> }

MultiMangas ==
    { [uuid |-> "m1", name |-> <<"X">>],
      [uuid |-> "m2", name |-> <<"x">>],
      [uuid |-> "m3", name |-> EmptyStr],
      [uuid |-> "m4", name |-> NoName] }

\* List[Tuple[Manga, List[Tuple[str, int]]]]
MangaReaders ==
    SeqsUpTo({[manga |-> m, uuid_chapter |-> uc] : m \in MultiMangas, uc \in UuidChapters},
             MaxTitles)

\* what check and check_multiple do not touch
build_vars == <<scrapers, threading_mode, task, scraped, returned, results,
                folded, clock, ret>>

InitCheck ==
    /\ scrapers = <<>>
    /\ threading_mode = "none"
    /\ pc = "ready"
    /\ task = <<>>
    /\ scraped = <<>>
    /\ returned = <<>>
    /\ results = <<>>
    /\ index \in WebIndexes
    /\ folded = 0
    /\ clock = 1
    /\ ret = "unset"
    /\ mangas = <<>>
    /\ new = <<>>
    /\ earlier = <<>>
    /\ user_mangas = <<>>
    /\ multi = EmptyDict
    /\ NoSync

\* check(user_mangas, web_mangas)
CheckCall ==
    /\ pc = "ready"
    /\ mangas' \in TitleLists
    /\ index' = CheckLoop(mangas', index, <<>>).web
    /\ new' = CheckLoop(mangas', index, <<>>).res
    /\ pc' = "checked"
    /\ UNCHANGED <<build_vars, earlier, user_mangas, multi, sync_vars>>

\* a second check(user_mangas, web_mangas) against the same index, the
\* caller still holding the list of the first
CheckAgain ==
    /\ pc = "checked"
    /\ earlier' = new
    /\ mangas' \in LaterLists
    /\ index' = CheckLoop(mangas', index, <<>>).web
    /\ new' = CheckLoop(mangas', index, <<>>).res
    /\ pc' = "checked_again"
    /\ UNCHANGED <<build_vars, user_mangas, multi, sync_vars>>

\* check_multiple(user_mangas, web_mangas)
CheckMultiple ==
    /\ pc = "ready"
    /\ user_mangas' \in MangaReaders
    /\ index' = CheckMultipleLoop(user_mangas', index, EmptyDict).web
    /\ multi' = CheckMultipleLoop(user_mangas', index, EmptyDict).res
    /\ pc' = "checked_multiple"
    /\ UNCHANGED <<build_vars, mangas, new, earlier, sync_vars>>

NextCheck ==
    \/ CheckCall
    \/ CheckAgain
    \/ CheckMultiple

SpecCheck == InitCheck /\ [][NextCheck]_vars

\* ======================================================================
\* main --sync: the file list against the reads of the database
\* ======================================================================
\* a Manga with the fields of Entry: None is NoUuid, NoName, None, NoTime
Title(uuid, name, chapter, created, updated) ==
    [uuid |-> uuid, name |-> name, chapter |-> chapter, urls |-> <<>>,
     created |-> created, updated |-> updated]

\* truth value of an Optional[str]: None and "" are false
HasText(x) == x # NoName /\ x # EmptyStr
HasUuid(m) == m.uuid # NoUuid
HasTime(t) == t # NoTime

\* "x != y", "x < y" on Optional[float]; "<" is only reached on numbers
SameChapter(x, y) ==
    \/ x.ty = "none" /\ y.ty = "none"
    \/ x.ty # "none" /\ y.ty # "none" /\ x.v = y.v

\* ---- the body of "for key in (db_set & file_set)" on st = [m, d, dirty,
\* ---- upd_db, log]: the file copy, the database copy and what the loop keeps
NoUUID(st) ==
    IF ~HasUuid(st.m)
    THEN [st EXCEPT !.m.uuid = st.d.uuid, !.dirty = TRUE, !.log = Append(@, "NoUUID")]
    ELSE st

NoCtd(st) ==
    IF ~HasTime(st.m.created)
    THEN [st EXCEPT !.m.created = st.d.created, !.dirty = TRUE, !.log = Append(@, "NoCtd")]
    ELSE st

\* the fill of updated without "dirty = True"
NoUpd_NotDirty(st) ==
    IF ~HasTime(st.m.updated)
    THEN [st EXCEPT !.m.updated = st.d.updated, !.log = Append(@, "NoUpd")]
    ELSE st

NoUpd(st) ==
    IF ~HasTime(st.m.updated)
    THEN [st EXCEPT !.m.updated = st.d.updated, !.dirty = TRUE, !.log = Append(@, "NoUpd")]
    ELSE st

NoNameFill(st) ==
    IF ~HasText(st.m.name)
    THEN [st EXCEPT !.m.name = st.d.name, !.dirty = TRUE, !.log = Append(@, "NoName")]
    ELSE st

\* the first test with "<=" in the place of "<"
FileIsNewer_OrEqual(m, d) ==
    HasTime(d.updated) /\ HasTime(m.updated) /\ d.updated <= m.updated

\* "d.updated is not None and m.updated is not None and d.updated < m.updated"
FileIsNewer(m, d) ==
    HasTime(d.updated) /\ HasTime(m.updated) /\ d.updated < m.updated

\* "d.updated is not None and m.updated is not None and d.updated > m.updated"
DbIsNewer(m, d) ==
    HasTime(d.updated) /\ HasTime(m.updated) /\ d.updated > m.updated

\* UpdD without "d.chapter = m.chapter"
UpdD_KeepChapter(st) ==
    [st EXCEPT !.d.name = st.m.name, !.d.updated = st.m.updated,
               !.upd_db = Append(@, [st.d EXCEPT !.name = st.m.name,
                                                 !.updated = st.m.updated]),
               !.log = Append(@, "UpdD")]

\* "m newer": the file copy goes into the database copy, which is queued
UpdD(st) ==
    [st EXCEPT !.d.name = st.m.name, !.d.chapter = st.m.chapter,
               !.d.updated = st.m.updated,
               !.upd_db = Append(@, [st.d EXCEPT !.name = st.m.name,
                                                 !.chapter = st.m.chapter,
                                                 !.updated = st.m.updated]),
               !.log = Append(@, "UpdD")]

\* UpdM without "m.updated = d.updated"
UpdM_KeepUpdated(st) ==
    [st EXCEPT !.m.name = st.d.name, !.m.chapter = st.d.chapter, !.dirty = TRUE,
               !.log = Append(@, "UpdM")]

\* "d newer": the database copy goes into the file copy
UpdM(st) ==
    [st EXCEPT !.m.name = st.d.name, !.m.chapter = st.d.chapter,
               !.m.updated = st.d.updated, !.dirty = TRUE,
               !.log = Append(@, "UpdM")]

\* the comparison of the chapter rule turned around
FileIsBehind_Flipped(m, d) ==
    m.chapter.ty = "none" \/ (d.chapter.ty # "none" /\ m.chapter.v > d.chapter.v)

\* "m.chapter is None or (d.chapter is not None and m.chapter < d.chapter)"
FileIsBehind(m, d) ==
    m.chapter.ty = "none" \/ (d.chapter.ty # "none" /\ m.chapter.v < d.chapter.v)

\* "d.chapter is None or d.chapter < m.chapter"
DbIsBehind(m, d) ==
    d.chapter.ty = "none" \/ d.chapter.v < m.chapter.v

ChapM(st) ==
    [st EXCEPT !.m.chapter = st.d.chapter, !.dirty = TRUE, !.log = Append(@, "ChapM")]

ChapD(st) ==
    [st EXCEPT !.d.chapter = st.m.chapter,
               !.upd_db = Append(@, [st.d EXCEPT !.chapter = st.m.chapter]),
               !.log = Append(@, "ChapD")]

\* "elif d.chapter != m.chapter"
ChapterRule(st) ==
    IF SameChapter(st.d.chapter, st.m.chapter) THEN st
    ELSE IF FileIsBehind(st.m, st.d) THEN ChapM(st)
    ELSE IF DbIsBehind(st.m, st.d) THEN ChapD(st)
    ELSE st

\* the if / elif / elif chain after the backfill
MergeRules(st) ==
    IF FileIsNewer(st.m, st.d) THEN UpdD(st)
    ELSE IF DbIsNewer(st.m, st.d) THEN UpdM(st)
    ELSE ChapterRule(st)

MergePair(st) == MergeRules(NoNameFill(NoUpd(NoCtd(NoUUID(st)))))

\* ---- the store: tables mangas and mangas_read (utf8_general_ci)
MangaRow(uuid, name, created, updated) ==
    [uuid |-> uuid, name |-> name, created |-> created, updated |-> updated]
ReadRow(manga_uuid, created, updated, chapter) ==
    [manga_uuid |-> manga_uuid, created |-> created, updated |-> updated,
     chapter |-> chapter]

\* "WHERE name = %s": the collation compares without case
ByName(tm, name) == SelectSeq(tm, LAMBDA row : Lower(row.name) = Lower(name))
\* "WHERE UuidFromBin(uuid) = %s"
ByUuid(tm, uuid) == SelectSeq(tm, LAMBDA row : row.uuid = uuid)

\* read_get: mangas_read JOIN mangas, chapter=float(t[5])
ReadGetRow(r, tm) ==
    Title(r.manga_uuid, ByUuid(tm, r.manga_uuid)[1].name, FloatV(r.chapter),
          r.created, r.updated)
ReadGet(tr, tm) == [n \in 1..Len(tr) |-> ReadGetRow(tr[n], tm)]

\* uuid.uuid4(): a uuid no row has
NewUuids == <<"n1", "n2", "n3", "n4", "n5", "n6", "n7", "n8">>
Uuid4(tm) == NewUuids[Len(tm) + 1]

\* "if not manga.created", "if not manga.updated" of read_create
FillTimes(m, now) ==
    [m EXCEPT !.created = IF HasTime(m.created) THEN m.created ELSE now,
              !.updated = IF HasTime(m.updated) THEN m.updated ELSE now]

\* "chapter = 0.0; if manga.chapter: chapter = manga.chapter", in tenths
ChapterOrZero(m) == IF Truthy(m.chapter) THEN m.chapter.v ELSE 0

\* the INSERT of read_create on a manga whose times are filled: the foreign
\* key needs the manga row, the primary key forbids a second read
InsertRead(m, tm, tr) ==
    IF Len(ByUuid(tm, m.uuid)) = 0
    THEN [out |-> "DAOException", m |-> m, tm |-> tm, tr |-> tr]
    ELSE IF \E n \in 1..Len(tr) : tr[n].manga_uuid = m.uuid
    THEN [out |-> "AlreadyExistsException", m |-> m, tm |-> tm, tr |-> tr]
    ELSE [out |-> "ok", m |-> m, tm |-> tm,
          tr |-> Append(tr, ReadRow(m.uuid, m.created, m.updated, ChapterOrZero(m)))]

\* dao.read_create(user, manga), the commit and the return
ReadCreate(m, tm, tr, now) ==
    IF ~HasUuid(m)
    THEN [out |-> "ValueException", m |-> m, tm |-> tm, tr |-> tr]
    ELSE InsertRead(FillTimes(m, now), tm, tr)

\* dao.manga_create(manga): created, updated and uuid are filled in
MangaCreated(m, tm, now) ==
    [m EXCEPT !.created = IF HasTime(m.created) THEN m.created ELSE now,
              !.updated = IF HasTime(m.updated) THEN m.updated
                          ELSE IF HasTime(m.created) THEN m.created ELSE now,
              !.uuid = IF HasUuid(m) THEN m.uuid ELSE Uuid4(tm)]

RowOf(m) == MangaRow(m.uuid, m.name, m.created, m.updated)

\* "manga.uuid = mangas[0].uuid" and the two lines after it
Adopt(m, row) ==
    [m EXCEPT !.uuid = row.uuid, !.created = row.created, !.updated = row.updated]

\* "if not manga.uuid:" with the result of the first manga_get
Resolve(m, found, tm, tr, now) ==
    IF Len(found) = 0
    THEN ReadCreate(Adopt(MangaCreated(m, tm, now), RowOf(MangaCreated(m, tm, now))),
                    Append(tm, RowOf(MangaCreated(m, tm, now))), tr, now)
    ELSE IF Len(found) > 1
    THEN [out |-> "list", m |-> m, tm |-> tm, tr |-> tr]
    ELSE ReadCreate(Adopt(m, found[1]), tm, tr, now)

\* create_manga without the test of the user
CreateManga_UserUnchecked(u, m, tm, tr, now) ==
    IF ~(HasUuid(m) \/ HasText(m.name))
    THEN [out |-> "ValueException", m |-> m, tm |-> tm, tr |-> tr]
    ELSE IF HasUuid(m) THEN ReadCreate(m, tm, tr, now)
    ELSE Resolve(m, ByName(tm, m.name), tm, tr, now)

\* create_manga(user, manga): [out, m, tm, tr]
CreateManga(u, m, tm, tr, now) ==
    IF u = NoUuid
    THEN [out |-> "ValueException", m |-> m, tm |-> tm, tr |-> tr]
    ELSE IF ~(HasUuid(m) \/ HasText(m.name))
    THEN [out |-> "ValueException", m |-> m, tm |-> tm, tr |-> tr]
    ELSE IF HasUuid(m) THEN ReadCreate(m, tm, tr, now)
    ELSE Resolve(m, ByName(tm, m.name), tm, tr, now)

\* ---- save_manga_file: sorted(mangas, key=name or "")
CharOrder ==
    <<" ", "-", ".", "0", "1", "2", "3", "4", "5", "6", "7", "8", "9",
      "X", "Y", "[", "]", "a", "b", "c", "x", "y">>
Ord(c) == CHOOSE n \in 1..Len(CharOrder) : CharOrder[n] = c

RECURSIVE StrLess(_, _)
StrLess(a, b) ==
    IF Len(b) = 0 THEN FALSE
    ELSE IF Len(a) = 0 THEN TRUE
    ELSE IF a[1] = b[1] THEN StrLess(Tail(a), Tail(b))
    ELSE Ord(a[1]) < Ord(b[1])

SortKey(m) == IF m.name = NoName THEN EmptyStr ELSE m.name

\* m goes behind every element that is not greater: the sort is stable
RECURSIVE InsertSorted(_, _)
InsertSorted(sorted, m) ==
    IF Len(sorted) = 0 THEN <<m>>
    ELSE IF StrLess(SortKey(m), SortKey(sorted[1])) THEN <<m>> \o sorted
    ELSE <<sorted[1]>> \o InsertSorted(Tail(sorted), m)

RECURSIVE SortedByName(_, _)
SortedByName(ms, sorted) ==
    IF Len(ms) = 0 THEN sorted
    ELSE SortedByName(Tail(ms), InsertSorted(sorted, ms[1]))

\* ---- the dicts and lists main builds before the merge loop
Keyed(list) == {n \in 1..Len(list) : list[n].name # NoName}
\* {x.name.lower(): x for x in list if x.name is not None}: the last wins
DictOf(list) ==
    [k \in {Lower(list[n].name) : n \in Keyed(list)} |->
        CHOOSE n \in Keyed(list) :
            /\ Lower(list[n].name) = k
            /\ \A j \in Keyed(list) : Lower(list[j].name) = k => j <= n]

\* the orders in which a set of keys may be iterated, as positions
OrdersOf(keys, dict) ==
    {[n \in 1..Cardinality(keys) |-> dict[p[n]]] :
        p \in {q \in [1..Cardinality(keys) -> keys] :
                 \A a, b \in 1..Cardinality(keys) : a # b => q[a] # q[b]}}

\* ---- the manga files and the databases main --sync is started on
\* the titles of a manga file, as yaml holds them: any field may be missing
FileTitles ==
    { Title("d1", <<"X">>, FloatV(30), 1, 1),
      Title(NoUuid, <<"x">>, None, NoTime, 1),
      Title("d1", <<"X">>, FloatV(70), 1, 2),
      Title("d1", <<"x">>, FloatV(70), 1, 1),
      Title(NoUuid, <<"Y">>, None, 2, 2),
      Title(NoUuid, EmptyStr, FloatV(20), 1, 1),
      Title(NoUuid, NoName, FloatV(30), 1, 1),
      Title("d1", <<"X">>, FloatV(30), 1, NoTime),
      Title("d1", <<"y">>, FloatV(50), 1, 1),
      Title(NoUuid, <<"X">>, FloatV(30), NoTime, 1),
      Title("d2", <<"Y">>, FloatV(70), 1, 1),
      Title(NoUuid, EmptyStr, FloatV(20), NoTime, NoTime) }

Files == SeqsUpTo(FileTitles, MaxTitles)

RowX == MangaRow("d1", <<"X">>, 1, 1)
RowY == MangaRow("d2", <<"Y">>, 1, 1)
ReadsOfX == {ReadRow("d1", 1, u, c) : u \in {1, 2}, c \in {30, 70}}
ReadOfY == ReadRow("d2", 1, 1, 50)
\* a manga stored with the empty name, which "name VARCHAR(255) NOT NULL" admits
RowE == MangaRow("d3", EmptyStr, 1, 1)
ReadOfE == ReadRow("d3", 1, 1, 50)

\* [tm, tr]: the rows of mangas and the reads of the user
Databases ==
    { [tm |-> <<>>, tr |-> <<>>],
      [tm |-> <<RowX>>, tr |-> <<>>],
      [tm |-> <<RowX, RowY>>, tr |-> <<ReadOfY>>],
      [tm |-> <<RowE>>, tr |-> <<ReadOfE>>] }
        \cup {[tm |-> <<RowX>>, tr |-> <<r>>] : r \in ReadsOfX}
        \cup {[tm |-> <<RowX, RowY>>, tr |-> <<r, ReadOfY>>] : r \in ReadsOfX}

\* what --sync leaves alone
detect_vars == <<scrapers, threading_mode, task, scraped, returned, results,
                 index, folded, ret, new, earlier, user_mangas, multi>>

\* main after load_manga_file, started with --sync only
InitSync ==
    /\ scrapers = <<>>
    /\ threading_mode = "none"
    /\ task = <<>>
    /\ scraped = <<>>
    /\ returned = <<>>
    /\ results = <<>>
    /\ index = EmptyDict
    /\ folded = 0
    /\ ret = "unset"
    /\ new = <<>>
    /\ earlier = <<>>
    /\ user_mangas = <<>>
    /\ multi = EmptyDict
    /\ clock = 3
    /\ user \in {NoUuid, "r1"}
    /\ file \in Files
    /\ mangas = file
    /\ \E db \in Databases : tbl_mangas = db.tm /\ tbl_read = db.tr
    /\ db_mangas = <<>>
    /\ db_dict = EmptyDict
    /\ file_dict = EmptyDict
    /\ common = {}
    /\ missing_db = <<>>
    /\ missing_file = <<>>
    /\ upd_db = <<>>
    /\ dirty = FALSE
    /\ log = <<>>
    /\ calls = <<>>
    /\ run = 1
    /\ error = "none"
    /\ opts = {}
    /\ pc = "loaded"

\* "db_mangas = instance.dao.read_get(user)" to "upd_db = []"; read_get
\* raises ValueException for a user without uuid
SyncStart ==
    /\ pc = "loaded"
    /\ IF user = NoUuid
       THEN /\ pc' = "raised"
            /\ error' = "ValueException"
            /\ UNCHANGED <<db_mangas, db_dict, file_dict, common, missing_db,
                           missing_file>>
       ELSE /\ pc' = "sync"
            /\ error' = error
            /\ db_mangas' = ReadGet(tbl_read, tbl_mangas)
            /\ db_dict' = DictOf(db_mangas')
            /\ file_dict' = DictOf(mangas)
            /\ common' = DOMAIN db_dict' \cap DOMAIN file_dict'
            /\ missing_db' \in OrdersOf(DOMAIN file_dict' \ DOMAIN db_dict', file_dict')
            /\ missing_file' \in OrdersOf(DOMAIN db_dict' \ DOMAIN file_dict', db_dict')
    /\ upd_db' = <<>>
    /\ UNCHANGED <<detect_vars, clock, mangas, user, file, tbl_mangas, tbl_read,
                   dirty, log, calls, run, opts>>

\* what one iteration of the merge loop is entered with, and leaves
Entered(key) ==
    [m |-> mangas[file_dict[key]], d |-> db_mangas[db_dict[key]],
     dirty |-> dirty, upd_db |-> upd_db, log |-> <<>>]
Merged(key) == MergePair(Entered(key))

\* one iteration of "for key in (db_set & file_set)"
SyncMerge ==
    /\ pc = "sync"
    /\ \E key \in common :
         /\ common' = common \ {key}
         /\ mangas' = [mangas EXCEPT ![file_dict[key]] = Merged(key).m]
         /\ db_mangas' = [db_mangas EXCEPT ![db_dict[key]] = Merged(key).d]
         /\ dirty' = Merged(key).dirty
         /\ upd_db' = Merged(key).upd_db
         /\ log' = log \o [n \in 1..Len(Merged(key).log) |->
                              [key |-> key, tag |-> Merged(key).log[n]]]
    /\ UNCHANGED <<detect_vars, clock, pc, user, file, tbl_mangas, tbl_read,
                   db_dict, file_dict, missing_db, missing_file, calls, run,
                   error, opts>>

\* "self.dao.commit()" issued whatever read_create did
Commits_Always(o) == TRUE

\* "if not res: raise DAOException(...)" then "self.dao.commit()": the commit
\* is issued when read_create returned its count
Commits(o) == o.out = "ok"

\* what is kept of a call of create_manga on the title at position n: the
\* manga handed in, the outcome, whether the commit was issued, the manga as
\* it is left, and the rows and reads of the session before and after
Call(n, m, o, tm, tr) ==
    [title |-> n, arg |-> m, out |-> o.out, commit |-> Commits(o), left |-> o.m,
     rows_before |-> tm, rows_after |-> o.tm,
     reads_before |-> tr, reads_after |-> o.tr]

\* what create_manga does with the next title of missing_db
Creation == CreateManga(user, mangas[missing_db[1]], tbl_mangas, tbl_read, clock)

\* one iteration of "for d in missing_db"; an exception of create_manga
\* leaves main, and the open transaction is lost with the connection
SyncCreate ==
    /\ pc = "sync"
    /\ common = {}
    /\ missing_db # <<>>
    /\ dirty' = (dirty \/ ~HasUuid(mangas[missing_db[1]]))
    /\ calls' = Append(calls, Call(missing_db[1], mangas[missing_db[1]], Creation,
                                    tbl_mangas, tbl_read))
    /\ mangas' = [mangas EXCEPT ![missing_db[1]] = Creation.m]
    /\ clock' = clock + 1
    /\ IF Creation.out \in {"ok", "list"}
       THEN /\ tbl_mangas' = Creation.tm
            /\ tbl_read' = Creation.tr
            /\ missing_db' = Tail(missing_db)
            /\ pc' = pc
            /\ error' = error
       ELSE /\ pc' = "raised"
            /\ error' = Creation.out
            /\ UNCHANGED <<tbl_mangas, tbl_read, missing_db>>
    /\ UNCHANGED <<detect_vars, user, file, db_mangas, db_dict, file_dict,
                   common, missing_file, upd_db, log, run, opts>>

\* the append without "dirty = True"
SyncAppend_NotDirty ==
    /\ pc = "sync"
    /\ common = {}
    /\ missing_db = <<>>
    /\ missing_file # <<>>
    /\ mangas' = Append(mangas, db_mangas[missing_file[1]])
    /\ missing_file' = Tail(missing_file)
    /\ UNCHANGED <<detect_vars, clock, pc, user, file, tbl_mangas, tbl_read,
                   db_mangas, db_dict, file_dict, common, missing_db, upd_db,
                   dirty, log, calls, run, error, opts>>

\* one iteration of "for m in missing_file"
SyncAppend ==
    /\ pc = "sync"
    /\ common = {}
    /\ missing_db = <<>>
    /\ missing_file # <<>>
    /\ mangas' = Append(mangas, db_mangas[missing_file[1]])
    /\ dirty' = TRUE
    /\ missing_file' = Tail(missing_file)
    /\ UNCHANGED <<detect_vars, clock, pc, user, file, tbl_mangas, tbl_read,
                   db_mangas, db_dict, file_dict, common, missing_db, upd_db,
                   log, calls, run, error, opts>>

\* "instance.dao.stop()": the queued updates are logged and left unwritten
SyncStop ==
    /\ pc = "sync"
    /\ common = {}
    /\ missing_db = <<>>
    /\ missing_file = <<>>
    /\ pc' = "synced"
    /\ UNCHANGED <<detect_vars, clock, mangas, sync_vars>>

\* "if dirty: instance.save_manga_file(user, mangas, readable=True)"
Save ==
    /\ pc = "synced"
    /\ file' = IF dirty THEN SortedByName(mangas, <<>>) ELSE file
    /\ pc' = "exit"
    /\ UNCHANGED <<detect_vars, clock, mangas, user, tbl_mangas, tbl_read,
                   db_mangas, db_dict, file_dict, common, missing_db,
                   missing_file, upd_db, dirty, log, calls, run, error, opts>>

\* main is started again with --sync: load_manga_file reads the file
Restart ==
    /\ pc = "exit"
    /\ run < MaxRuns
    /\ run' = run + 1
    /\ mangas' = file
    /\ dirty' = FALSE
    /\ db_mangas' = <<>>
    /\ db_dict' = EmptyDict
    /\ file_dict' = EmptyDict
    /\ upd_db' = <<>>
    /\ log' = <<>>
    /\ calls' = <<>>
    /\ opts' = {}
    /\ pc' = "loaded"
    /\ UNCHANGED <<detect_vars, clock, user, file, tbl_mangas, tbl_read, common,
                   missing_db, missing_file, error>>

\* create_manga(user, manga) called on a loaded title by a user of the
\* controller; what was not committed is not in the tables
CreateCall ==
    /\ pc = "loaded"
    /\ \E n \in 1..Len(mangas) :
         /\ calls' = Append(calls, Call(n, mangas[n],
                                        CreateManga(user, mangas[n], tbl_mangas,
                                                    tbl_read, clock),
                                        tbl_mangas, tbl_read))
         /\ mangas' = [mangas EXCEPT ![n] = calls'[1].left]
    /\ tbl_mangas' = IF calls'[1].commit THEN calls'[1].rows_after ELSE tbl_mangas
    /\ tbl_read' = IF calls'[1].commit THEN calls'[1].reads_after ELSE tbl_read
    /\ error' = IF calls'[1].out \in {"ok", "list"} THEN error ELSE calls'[1].out
    /\ clock' = clock + 1
    /\ pc' = "created"
    /\ UNCHANGED <<detect_vars, user, file, db_mangas, db_dict, file_dict, common,
                   missing_db, missing_file, upd_db, dirty, log, run, opts>>

NextSync ==
    \/ CreateCall
    \/ SyncStart
    \/ SyncMerge
    \/ SyncCreate
    \/ SyncAppend
    \/ SyncStop
    \/ Save
    \/ Restart

SpecSync == InitSync /\ [][NextSync]_vars

\* ======================================================================
\* main --add, --read and --sync on a file with distinct names
\* ======================================================================
\* str.startswith
StartsWith(s, r) == Len(r) <= Len(s) /\ SubSeq(s, 1, Len(r)) = r

\* "(n.name or m.name) and n.name.lower() == m.name.lower()"
NameMatches(n, m) ==
    (n.name # EmptyStr \/ m.name # EmptyStr) /\ Lower(n.name) = Lower(m.name)

\* "(n.uuid or m.uuid) and n.uuid == m.uuid"
UuidMatches(n, m) ==
    (n.uuid # NoUuid \/ m.uuid # NoUuid) /\ n.uuid = m.uuid

Matches(n, m) == NameMatches(n, m) \/ UuidMatches(n, m)

\* "m.chapter = n.chapter; m.updated = n.updated; m.urls = n.urls"
MarkRead(m, n) ==
    [m EXCEPT !.chapter = n.chapter, !.updated = n.updated, !.urls = n.urls]

\* "for n in new" on the title m; news holds keys of the index web
RECURSIVE ReadTitle(_, _, _)
ReadTitle(m, news, web) ==
    IF Len(news) = 0 THEN m
    ELSE IF web[news[1]].name = NoName THEN ReadTitle(m, Tail(news), web)
    ELSE IF Matches(web[news[1]], m)
    THEN ReadTitle(MarkRead(m, web[news[1]]), Tail(news), web)
    ELSE ReadTitle(m, Tail(news), web)

\* the two "continue" tests on m, negated: r is args.read.lower()
Selected(m, r) ==
    m.name # NoName /\ (r = EmptyStr \/ StartsWith(Lower(m.name), r))

\* "for m in mangas" of the --read block
ReadAll(titles, news, web, r) ==
    [i \in 1..Len(titles) |->
        IF Selected(titles[i], r) THEN ReadTitle(titles[i], news, web)
        ELSE titles[i]]

\* some assignment of the --read block was reached: "dirty = True"
AnyRead(titles, news, web, r) ==
    \E i \in 1..Len(titles) : \E j \in 1..Len(news) :
        /\ Selected(titles[i], r)
        /\ web[news[j]].name # NoName
        /\ Matches(web[news[j]], titles[i])

\* "found" of the --add block is not empty
Found(titles, name) ==
    \E i \in 1..Len(titles) :
        titles[i].name # NoName /\ Lower(titles[i].name) = Lower(name)

\* pairwise distinct lower-cased names, none of them None
DistinctNames(titles) ==
    /\ \A i \in 1..Len(titles) : titles[i].name # NoName
    /\ \A i, j \in 1..Len(titles) :
         i # j => Lower(titles[i].name) # Lower(titles[j].name)

\* the titles of the files; two of them carry the same uuid
EditTitles ==
    { Title("d1", <<"X">>, FloatV(20), 1, 1),
      Title("d1", <<"Y">>, FloatV(70), 1, 1),
      Title(NoUuid, <<"y">>, FloatV(20), 1, 1),
      Title(NoUuid, <<"x">>, None, 1, 1),
      Title("d2", <<"Y">>, FloatV(50), 1, 1) }

EditFiles == {f \in SeqsUpTo(EditTitles, MaxTitles) : DistinctNames(f)}

\* what create_index returned in the run: built at time 3
EditEntry(name, chapter) ==
    [Manga(NoUuid, name, chapter) EXCEPT !.urls = <<[host |-> 1, path |-> "a"]>>,
                                         !.updated = 3]
EditIndexes ==
    { EmptyDict,
      <<"x">> :> EditEntry(<<"X">>, FloatV(50)),
      (<<"x">> :> EditEntry(<<"x">>, FloatV(50))) @@ (<<"y">> :> EditEntry(<<"Y">>, FloatV(50))) }

EditDatabases ==
    { [tm |-> <<>>, tr |-> <<>>],
      [tm |-> <<RowX>>, tr |-> <<ReadRow("d1", 1, 2, 30)>>],
      [tm |-> <<RowX, RowY>>, tr |-> <<ReadRow("d1", 1, 1, 30), ReadOfY>>] }

\* the values of --add and of --read
AddNames == {<<"x">>, <<"Y">>, <<"a">>}
ReadPrefixes == {EmptyStr, <<"X">>}

\* main after load_manga_file on a file and reads with distinct names
InitEdit ==
    /\ scrapers = <<>>
    /\ threading_mode = "none"
    /\ task = <<>>
    /\ scraped = <<>>
    /\ returned = <<>>
    /\ results = <<>>
    /\ index \in EditIndexes
    /\ folded = 0
    /\ ret = "index"
    /\ new = <<>>
    /\ earlier = <<>>
    /\ user_mangas = <<>>
    /\ multi = EmptyDict
    /\ clock = 4
    /\ user = "r1"
    /\ file \in EditFiles
    /\ mangas = file
    /\ \E db \in EditDatabases : tbl_mangas = db.tm /\ tbl_read = db.tr
    /\ db_mangas = <<>>
    /\ db_dict = EmptyDict
    /\ file_dict = EmptyDict
    /\ common = {}
    /\ missing_db = <<>>
    /\ missing_file = <<>>
    /\ upd_db = <<>>
    /\ dirty = FALSE
    /\ log = <<>>
    /\ calls = <<>>
    /\ run = 1
    /\ error = "none"
    /\ opts = {}
    /\ pc = "loaded"

\* what the steps before --sync leave alone
edit_vars == <<scrapers, threading_mode, task, scraped, returned, results, folded,
               ret, earlier, user_mangas, multi, user, file, tbl_mangas, tbl_read,
               db_mangas, db_dict, file_dict, common, missing_db, missing_file,
               upd_db, log, calls, run, error>>

\* the --add block without the test of found
Add_Unchecked(name) ==
    /\ pc = "loaded"
    /\ opts = {}
    /\ opts' = {"add"}
    /\ mangas' = Append(mangas, Title(NoUuid, name, None, clock, clock))
    /\ dirty' = TRUE
    /\ clock' = clock + 1
    /\ UNCHANGED <<edit_vars, pc, index, new>>

\* "if args.add:"
Add(name) ==
    /\ pc = "loaded"
    /\ opts = {}
    /\ opts' = {"add"}
    /\ mangas' = IF Found(mangas, name) THEN mangas
                 ELSE Append(mangas, Title(NoUuid, name, None, clock, clock))
    /\ dirty' = (dirty \/ ~Found(mangas, name))
    /\ clock' = clock + 1
    /\ UNCHANGED <<edit_vars, pc, index, new>>

\* "if args.read is not None:" with new from check(mangas, temp_index)
ReadMark(read) ==
    /\ pc = "loaded"
    /\ "read" \notin opts
    /\ opts' = opts \cup {"read"}
    /\ index' = CheckLoop(mangas, index, <<>>).web
    /\ new' = CheckLoop(mangas, index, <<>>).res
    /\ mangas' = ReadAll(mangas, new', index', Lower(read))
    /\ dirty' = (dirty \/ AnyRead(mangas, new', index', Lower(read)))
    /\ UNCHANGED <<edit_vars, pc, clock>>

\* main started without --sync
SkipSync ==
    /\ pc = "loaded"
    /\ pc' = "synced"
    /\ UNCHANGED <<detect_vars, clock, mangas, sync_vars>>

NextEdit ==
    \/ \E name \in AddNames : Add(name)
    \/ \E read \in ReadPrefixes : ReadMark(read)
    \/ SkipSync
    \/ SyncStart
    \/ SyncMerge
    \/ SyncCreate
    \/ SyncAppend
    \/ SyncStop
    \/ Save
    \/ Restart

SpecEdit == InitEdit /\ [][NextEdit]_vars

\* ======================================================================
\* Vocabulary of the properties
\* ======================================================================
SetMax(S) == CHOOSE x \in S : \A y \in S : y <= x
Range(f) == {f[i] : i \in DOMAIN f}

\* some candidate of the number field parses as a number
Parsed(a) ==
    {ParseFloat(a.number.v[j]).v :
        j \in {c \in 1..Len(a.number.v) : ParseFloat(a.number.v[c]).ok}}
HasParseable(a) == a.number.has /\ Parsed(a) # {}

\* what normalization hands on for a record: its chapter number, or None
\* when the record is skipped
NormalizedChapter(a) == IF Truthy(NumberOf(a)) THEN NumberOf(a) ELSE None

Listing(i) == scraped[i].chapter
\* sources whose _do_scrap returned a partial map that reached the fold
Contributed == {i \in Sources : task[i] = "done" /\ ~returned[i].none}
\* accepted records of source i under key k, as positions of its listing
AcceptedAt(i, k) ==
    {j \in 1..Len(Listing(i)) :
        Truthy(NumberOf(Listing(i)[j])) /\ RecordKey(Listing(i)[j]) = k}
ChapterAt(i, j) == NumberOf(Listing(i)[j]).v
LocationAt(i, j) == RecordLink(Listing(i)[j], scrapers[i])
AcceptedChapters(k) ==
    UNION {{ChapterAt(i, j) : j \in AcceptedAt(i, k)} : i \in Contributed}
\* locations of the accepted records of key k that carry chapter c
Backing(k, c) ==
    UNION {{LocationAt(i, j) : j \in {x \in AcceptedAt(i, k) : ChapterAt(i, x) = c}} :
              i \in Contributed}

Built == pc \in {"done", "checked"} /\ ret = "index"

\* the same keys and, per key, the same name, chapter and urls
SameIndex(a, b) ==
    /\ DOMAIN a = DOMAIN b
    /\ \A k \in DOMAIN a :
         /\ a[k].name = b[k].name
         /\ a[k].chapter.v = b[k].chapter.v
         /\ a[k].urls = b[k].urls

RECURSIVE FoldAll(_, _, _)
FoldAll(idx, rs, now) ==
    IF Len(rs) = 0 THEN idx
    ELSE FoldAll(FoldResult(idx, rs[1], now), Tail(rs), now + 1)

\* ======================================================================
\* Properties
\* ======================================================================

\* C1: for every completion order of the per-source tasks and in every mode,
\* create_index returns the index the sequential fold of the per-source maps
\* in source order gives (same keys, names, chapters and urls).
C1_SameIndexInAllModes ==
    (Built /\ \A i \in Sources : task[i] = "done")
        => SameIndex(index, FoldAll(EmptyDict, [i \in Sources |-> returned[i]], 1))

\* C2: end to end, a reader title tracked at a non-null chapter r below a
\* chapter c that a contributing source lists for it is reported by check,
\* with the maximum chapter listed for it.
C2_NewChapterIsReported ==
    pc = "checked" =>
        \A t \in Range(mangas) :
            LET k == Lower(t.name)
            IN  (/\ t.name # NoName
                 /\ t.chapter.ty # "none"
                 /\ \E c \in AcceptedChapters(k) : t.chapter.v < c)
                => \E n \in 1..Len(new) :
                     /\ new[n] = k
                     /\ index[k].chapter.v = SetMax(AcceptedChapters(k))

C3_Final ==
    Built => \A k \in DOMAIN index :
                /\ AcceptedChapters(k) # {}
                /\ index[k].chapter.v = SetMax(AcceptedChapters(k))
C3_Step ==
    \A k \in DOMAIN index :
        k \in DOMAIN index' /\ index[k].chapter.v <= index'[k].chapter.v

\* C3: the chapter of every entry of the returned index is the maximum chapter
\* of the accepted records of its name over the contributing sources, and no
\* fold step lowers the chapter of an entry.
C3_ChapterIsMaximum == [](C3_Final) /\ [][C3_Step]_vars

\* C4: the urls of every entry of the returned index are exactly the locations
\* that reported the maximum chapter of its name.
C4_UrlsBackMaximum ==
    Built => \A k \in DOMAIN index :
                /\ AcceptedChapters(k) # {}
                /\ Range(index[k].urls) = Backing(k, SetMax(AcceptedChapters(k)))

\* C5: the partial map of a source keeps, per name, the maximum chapter of
\* that source's accepted records and the location backing that maximum.
C5_PartialMapKeepsMaximum ==
    \A i \in Contributed : \A k \in DOMAIN returned[i].m :
        LET chapters == {ChapterAt(i, j) : j \in AcceptedAt(i, k)}
            e == returned[i].m[k]
        IN  /\ chapters # {}
            /\ e.chapter.v = SetMax(chapters)
            /\ e.url \in {LocationAt(i, j) :
                            j \in {x \in AcceptedAt(i, k) :
                                     ChapterAt(i, x) = SetMax(chapters)}}

\* C6: folding the per-source maps in any order gives the index that was
\* built (same keys, names, chapters and urls).
C6_FoldOrderIndependent ==
    Built => \A p \in Permutations(1..Len(results)) :
                SameIndex(index,
                          FoldAll(EmptyDict, [i \in 1..Len(results) |-> results[p[i]]], 1))

\* C7: a record whose number field is a list with a parseable candidate gets
\* the maximum parsed candidate as its chapter number.
C7_ListNumberIsMaximum ==
    \A i \in Sources : \A j \in 1..Len(Listing(i)) :
        LET a == Listing(i)[j]
        IN  (a.number.list /\ HasParseable(a))
                => /\ NormalizedChapter(a).ty # "none"
                   /\ NormalizedChapter(a).v = SetMax(Parsed(a))

\* C8: a key of a per-source map, and a key of the index, always comes from a
\* record of that listing that has a parseable number candidate.
C8_NoNumberNoKey ==
    /\ \A i \in Sources : \A k \in DOMAIN returned[i].m :
         \E j \in 1..Len(Listing(i)) :
            RecordKey(Listing(i)[j]) = k /\ HasParseable(Listing(i)[j])
    /\ \A k \in DOMAIN index :
         \E i \in Sources : \E j \in 1..Len(Listing(i)) :
            RecordKey(Listing(i)[j]) = k /\ HasParseable(Listing(i)[j])

\* a build returned an index that holds another name, while the name of a
\* listed record without parseable number is in no map
C8_Witness ==
    /\ Built
    /\ DOMAIN index # {}
    /\ \E i \in Contributed : \E j \in 1..Len(Listing(i)) :
         LET a == Listing(i)[j]
         IN  /\ a.number.has
             /\ ~HasParseable(a)
             /\ RecordKey(a) \notin DOMAIN returned[i].m
             /\ RecordKey(a) \notin DOMAIN index

\* C9: no failure of a source leaves create_index, and the maps of the other
\* sources are all folded into the returned index.
C9_SourceFailureContained ==
    /\ pc # "raised"
    /\ Built => \A i \in Contributed : DOMAIN returned[i].m \subseteq DOMAIN index

\* C10: create_index returns None exactly when no source is configured; with
\* a source configured and nothing contributed it returns the empty index.
C10_NoneOnlyWithoutSources ==
    /\ ret = "None" => Len(scrapers) = 0
    /\ (pc \in {"done", "checked"} /\ Len(scrapers) = 0) => ret = "None"
    /\ (/\ pc = "done"
        /\ Len(scrapers) > 0
        /\ \A i \in Sources : returned[i].none \/ DOMAIN returned[i].m = {})
        => ret = "index" /\ index = EmptyDict

\* every configured source failed or listed nothing usable
C10_Witness ==
    /\ pc = "done"
    /\ Len(scrapers) = MaxSources
    /\ \E i \in Sources : scraped[i].outcome = "connect"
    /\ \E i \in Sources : scraped[i].outcome = "ok" /\ Len(Listing(i)) > 0
    /\ \A i \in Sources : returned[i].none \/ DOMAIN returned[i].m = {}
    /\ ret = "index"
    /\ index = EmptyDict

\* ------------------------------------------------- check, check_multiple
\* the reader title t is behind the index: its lower-cased name is a key,
\* both chapters are there and the reader's is strictly the smaller
Behind(t) ==
    /\ t.name # NoName
    /\ Lower(t.name) \in DOMAIN index
    /\ t.chapter.ty # "none"
    /\ index[Lower(t.name)].chapter.ty # "none"
    /\ t.chapter.v < index[Lower(t.name)].chapter.v

\* the index keys of the titles of a list, in the order of the list
KeysOf(titles) == [n \in 1..Len(titles) |-> Lower(titles[n].name)]

\* the entries a returned list shows to its holder, read through an index
EntriesOf(keys, web) == [n \in 1..Len(keys) |-> web[keys[n]]]

\* C11: check returns one entry per reader title that is behind the index (key
\* present, both chapters non-null, reader's chapter strictly smaller), in
\* the order of the reader's list, and nothing for any other title.
C11_ReportsExactlyBehind ==
    pc = "checked" => new = KeysOf(SelectSeq(mangas, Behind))

\* one title was reported while a title of the same name at the index's own
\* chapter was not
C11_Witness ==
    /\ pc = "checked"
    /\ Len(mangas) = 2
    /\ Len(new) = 1
    /\ Behind(mangas[2])
    /\ Lower(mangas[1].name) = Lower(mangas[2].name)
    /\ mangas[1].chapter.ty # "none"
    /\ mangas[1].chapter.v = index[Lower(mangas[1].name)].chapter.v

\* C12: when check returns, its n-th entry carries the uuid of the n-th reader
\* title that is behind the index, also when several titles share a key.
C12_EntryCarriesReaderUuid ==
    pc = "checked" =>
        \A n \in 1..Len(new) :
            n <= Len(SelectSeq(mangas, Behind))
                => index[new[n]].uuid = SelectSeq(mangas, Behind)[n].uuid

\* C13: a call of check changes no entry of the index, and the entries of
\* a list check returned are never altered afterwards.
C13_CheckEmitsCopies ==
    [][/\ pc' \in {"checked", "checked_again"} => index' = index
       /\ pc = "checked" => EntriesOf(new, index') = EntriesOf(new, index)]_vars

\* the titles check would be handed for the reader u alone: one per pair of
\* user_mangas that names u, with u's chapter
TitlesOfReader(manga, uuid_chapter, u) ==
    [n \in 1..Len(SelectSeq(uuid_chapter, LAMBDA rc : rc.uuid = u)) |->
        [uuid |-> manga.uuid, name |-> manga.name,
         chapter |-> SelectSeq(uuid_chapter, LAMBDA rc : rc.uuid = u)[n].chapter]]

RECURSIVE TitlesOf(_, _)
TitlesOf(pairs, u) ==
    IF Len(pairs) = 0 THEN <<>>
    ELSE TitlesOfReader(pairs[1].manga, pairs[1].uuid_chapter, u)
            \o TitlesOf(Tail(pairs), u)

ReadersOf(pairs) ==
    UNION {{pairs[n].uuid_chapter[j].uuid : j \in 1..Len(pairs[n].uuid_chapter)} :
              n \in 1..Len(pairs)}

\* the list check_multiple returned for u; a reader without a list has no
\* update
ListFor(u) == IF u \in DOMAIN multi THEN multi[u] ELSE <<>>

\* C14: for every reader, the list check_multiple returns is the list check
\* returns for that reader alone, with the reader's chapters, on the same index.
C14_MultipleAgreesWithCheck ==
    pc = "checked_multiple" =>
        \A u \in ReadersOf(user_mangas) :
            ListFor(u) = CheckLoop(TitlesOf(user_mangas, u), index, <<>>).res

\* two titles and two readers: one reader has an update, the other has a
\* list without one
C14_Witness ==
    /\ pc = "checked_multiple"
    /\ Len(user_mangas) = 2
    /\ \E u \in DOMAIN multi : Len(multi[u]) > 0
    /\ \E u \in DOMAIN multi : multi[u] = <<>>

\* C15: check returns nothing for a reader title whose name is "" or None.
C15_EmptyNameNeverMatches ==
    pc = "checked" =>
        \A n \in 1..Len(mangas) :
            mangas[n].name \in {EmptyStr, NoName}
                => \A j \in 1..Len(new) : new[j] # Lower(mangas[n].name)

\* ------------------------------------------------------------- main --sync
\* the file copy and the database copy of a key, before and after a step
FileCopy(k) == mangas[file_dict[k]]
DbCopy(k) == db_mangas[db_dict[k]]
FileCopyAfter(k) == mangas'[file_dict[k]]
DbCopyAfter(k) == db_mangas'[db_dict[k]]

\* the keys an iteration of the merge loop has just handled
JustMerged == IF pc = "sync" /\ pc' = "sync" THEN common \ common' ELSE {}
\* the keys on both sides the merge loop is through with
MergedKeys == (DOMAIN file_dict \cap DOMAIN db_dict) \ common

\* the same chapter and the same, non-null, updated timestamp
AgreeingPair(m, d) ==
    /\ HasTime(m.updated)
    /\ m.updated = d.updated
    /\ (m.chapter.ty = "none") = (d.chapter.ty = "none")
    /\ m.chapter.v = d.chapter.v

\* the file copy has every field the backfill looks at
Complete(m) ==
    HasUuid(m) /\ HasTime(m.created) /\ HasTime(m.updated) /\ HasText(m.name)

\* the step sets no dirty flag, queues nothing and changes neither list
NothingDone ==
    /\ dirty' = dirty
    /\ upd_db' = upd_db
    /\ mangas' = mangas
    /\ db_mangas' = db_mangas

\* C16: merging a file entry and a database entry of the same lower-cased name
\* with equal chapter and equal updated timestamp sets no dirty flag, queues
\* no database update and changes neither record.
C16_AgreeingPairUntouched ==
    [][\A k \in JustMerged :
          AgreeingPair(FileCopy(k), DbCopy(k)) => NothingDone]_vars

\* C16 as amended: the same, for a file entry that has its uuid, created
\* and a non-empty name, so that the backfill finds nothing to fill.
C16_CompleteAgreeingPairUntouched ==
    [][\A k \in JustMerged :
          (AgreeingPair(FileCopy(k), DbCopy(k)) /\ Complete(FileCopy(k)))
              => NothingDone]_vars

\* a complete, agreeing pair has been merged and nothing was done
C16_Witness ==
    /\ pc = "sync"
    /\ \E k \in MergedKeys :
         AgreeingPair(FileCopy(k), DbCopy(k)) /\ Complete(FileCopy(k))
    /\ ~dirty
    /\ upd_db = <<>>
    /\ log = <<>>
    /\ mangas = file

\* C17: a second run of the sync, on the file and the database the first run
\* left, sets no dirty flag, queues no database update and creates nothing.
C17_SecondSyncIdle ==
    (pc = "synced" /\ run = 2) => (~dirty /\ upd_db = <<>> /\ calls = <<>>)

\* x is behind y: None, or numerically smaller
BehindOf(x, y) == x.ty = "none" \/ (y.ty # "none" /\ x.v < y.v)

\* the backfill has something to fill in m
Incomplete(m) == ~Complete(m)

\* C18: for a pair with equal updated timestamps and different chapters, the
\* side that is behind gets the chapter of the other side, which is left as
\* it is: a file that is behind is advanced with dirty set and nothing queued,
\* a database copy that is behind is advanced and queued, and dirty is then
\* set only by the backfill.
C18_BehindSideAdvanced ==
    [][\A k \in JustMerged :
          (/\ HasTime(FileCopy(k).updated)
           /\ FileCopy(k).updated = DbCopy(k).updated
           /\ ~SameChapter(FileCopy(k).chapter, DbCopy(k).chapter))
          => IF BehindOf(FileCopy(k).chapter, DbCopy(k).chapter)
             THEN /\ FileCopyAfter(k).chapter = DbCopy(k).chapter
                  /\ DbCopyAfter(k) = DbCopy(k)
                  /\ dirty'
                  /\ upd_db' = upd_db
             ELSE /\ DbCopyAfter(k).chapter = FileCopy(k).chapter
                  /\ FileCopyAfter(k).chapter = FileCopy(k).chapter
                  /\ upd_db' = Append(upd_db, DbCopyAfter(k))
                  /\ dirty' = (dirty \/ Incomplete(FileCopy(k)))]_vars

\* the tags the merge loop logged for key k
TagsOf(k) == {log[n].tag : n \in {j \in 1..Len(log) : log[j].key = k}}

\* a file without chapter was advanced to the chapter of the database, and a
\* database copy was advanced to the chapter of the file and queued
C18_Witness ==
    /\ pc = "sync"
    /\ common = {}
    /\ \E k \in MergedKeys :
         /\ "ChapM" \in TagsOf(k)
         /\ file[file_dict[k]].chapter.ty = "none"
         /\ FileCopy(k).chapter = DbCopy(k).chapter
         /\ FileCopy(k).chapter.ty # "none"
    /\ \E k \in MergedKeys :
         /\ "ChapD" \in TagsOf(k)
         /\ DbCopy(k).chapter = FileCopy(k).chapter
         /\ upd_db = <<DbCopy(k)>>

RuleTags == {"UpdD", "UpdM", "ChapM", "ChapD"}
\* the rules that fired in the step, for key k
FiredFor(k) ==
    {n \in (Len(log) + 1)..Len(log') : log'[n].key = k /\ log'[n].tag \in RuleTags}

C19_Step ==
    \A k \in JustMerged :
        /\ Cardinality(FiredFor(k)) <= 1
        /\ (HasTime(FileCopy(k).updated) /\ DbCopy(k).updated < FileCopy(k).updated)
            => /\ DbCopyAfter(k).name = FileCopyAfter(k).name
               /\ DbCopyAfter(k).chapter = FileCopy(k).chapter
               /\ DbCopyAfter(k).updated = FileCopy(k).updated
               /\ FileCopyAfter(k).chapter = FileCopy(k).chapter
               /\ FileCopyAfter(k).updated = FileCopy(k).updated
               /\ upd_db' = Append(upd_db, DbCopyAfter(k))
               /\ \A n \in FiredFor(k) : log'[n].tag = "UpdD"
        /\ (HasTime(FileCopy(k).updated) /\ DbCopy(k).updated > FileCopy(k).updated)
            => /\ FileCopyAfter(k).name = DbCopy(k).name
               /\ FileCopyAfter(k).chapter = DbCopy(k).chapter
               /\ FileCopyAfter(k).updated = DbCopy(k).updated
               /\ DbCopyAfter(k) = DbCopy(k)
               /\ dirty'
               /\ upd_db' = upd_db
               /\ \A n \in FiredFor(k) : log'[n].tag = "UpdM"
        /\ (\E n \in FiredFor(k) : log'[n].tag \in {"ChapM", "ChapD"})
            => ~(/\ HasTime(FileCopy(k).updated)
                 /\ DbCopy(k).updated # FileCopy(k).updated)
        /\ \/ DbCopyAfter(k) = DbCopy(k)
           \/ /\ FileCopyAfter(k).chapter = FileCopy(k).chapter
              /\ HasTime(FileCopy(k).updated)
                    => FileCopyAfter(k).updated = FileCopy(k).updated

C19_QueuedOnce ==
    \A a, b \in 1..Len(upd_db) : a # b => upd_db[a].uuid # upd_db[b].uuid

\* C19: for every common pair at most one of the three rules fires: with
\* db.updated < file.updated the file's name, chapter and updated go into the
\* database copy, which is queued; with db.updated > file.updated the
\* database's go into the file copy and dirty is set; the chapter rule fires
\* only when neither did. No pair is copied in both directions and no
\* database copy is queued twice.
C19_OneRulePerPair == [](C19_QueuedOnce) /\ [][C19_Step]_vars

\* both timestamp rules have fired in one run, each on its own pair
C19_Witness ==
    /\ pc = "sync"
    /\ common = {}
    /\ \E k \in MergedKeys : TagsOf(k) \cap RuleTags = {"UpdD"}
    /\ \E k \in MergedKeys : TagsOf(k) \cap RuleTags = {"UpdM"}
    /\ Len(upd_db) = 1
    /\ dirty

\* the lower-cased names of the file as loaded, and of the database copies
FileKeys == {Lower(file[n].name) : n \in Keyed(file)}
DbKeys == {Lower(db_mangas[n].name) : n \in Keyed(db_mangas)}
CallsFor(k) == {n \in 1..Len(calls) : Lower(mangas[calls[n].title].name) = k}
AppendedFor(k) ==
    {n \in (Len(file) + 1)..Len(mangas) : Lower(mangas[n].name) = k}

\* C20: when the sync is through, every name that was only in the file has
\* been handed to create_manga exactly once, every name that was only in the
\* database has been appended to the file list exactly once with dirty set,
\* and the names on both sides were neither created nor appended.
C20_MissingCreatedAndAppended ==
    pc = "synced" =>
        /\ \A k \in FileKeys \ DbKeys :
             Cardinality(CallsFor(k)) = 1 /\ AppendedFor(k) = {}
        /\ \A k \in DbKeys \ FileKeys :
             /\ Cardinality(AppendedFor(k)) = 1
             /\ CallsFor(k) = {}
             /\ dirty
             /\ \A n \in AppendedFor(k) : mangas[n] = DbCopy(k)
        /\ \A k \in FileKeys \cap DbKeys : CallsFor(k) = {} /\ AppendedFor(k) = {}
        /\ Len(calls) = Cardinality(FileKeys \ DbKeys)
        /\ Len(mangas) = Len(file) + Cardinality(DbKeys \ FileKeys)

\* one name was only in the file and was created, another was only in the
\* database and was appended
C20_Witness ==
    /\ pc = "synced"
    /\ Cardinality(FileKeys \ DbKeys) = 1
    /\ Cardinality(DbKeys \ FileKeys) = 1
    /\ Len(calls) = 1
    /\ calls[1].out = "ok"
    /\ Len(mangas) = Len(file) + 1
    /\ dirty

\* ---- the log entries the step under way adds, and their tags
NewEntries == {n \in 1..Len(log') : n > Len(log)}
NewTags == {log'[n].tag : n \in NewEntries}
RuleFired == NewTags \cap RuleTags # {}

\* what the fills do to the pair of key k in the step under way
FillsOf(k) ==
    /\ ~HasUuid(FileCopy(k)) =>
           FileCopyAfter(k).uuid = DbCopy(k).uuid /\ dirty' /\ "NoUUID" \in NewTags
    /\ HasUuid(FileCopy(k)) => FileCopyAfter(k).uuid = FileCopy(k).uuid
    /\ ~HasTime(FileCopy(k).created) =>
           FileCopyAfter(k).created = DbCopy(k).created /\ dirty' /\ "NoCtd" \in NewTags
    /\ HasTime(FileCopy(k).created) => FileCopyAfter(k).created = FileCopy(k).created
    /\ ~HasTime(FileCopy(k).updated) =>
           /\ FileCopyAfter(k).updated = DbCopy(k).updated
           /\ dirty'
           /\ "NoUpd" \in NewTags
           /\ NewTags \cap {"UpdD", "UpdM"} = {}
    /\ (HasTime(FileCopy(k).updated) /\ "UpdM" \notin NewTags) =>
           FileCopyAfter(k).updated = FileCopy(k).updated
    /\ ~HasText(FileCopy(k).name) =>
           FileCopyAfter(k).name = DbCopy(k).name /\ dirty' /\ "NoName" \in NewTags
    /\ (HasText(FileCopy(k).name) /\ "UpdM" \notin NewTags) =>
           FileCopyAfter(k).name = FileCopy(k).name

\* a rule's entry is the last one of its iteration: the fills come first
FillsFirst ==
    \A n \in NewEntries : log'[n].tag \in RuleTags => n = Len(log')

\* C21: in every iteration of the merge loop each of uuid, created, updated
\* and name that the file copy lacks is taken from the database copy and sets
\* dirty, a field the file copy has is left to the rules, the fills come
\* before the rule, and a file copy that lacked updated meets no timestamp
\* rule.
C21_BackfillFirstPerField ==
    [][(\A k \in JustMerged : FillsOf(k)) /\ (JustMerged # {} => FillsFirst)]_vars

\* a file copy lacking all four fields was filled and then met the chapter rule
C21_Witness ==
    /\ pc = "synced"
    /\ \E k \in MergedKeys :
         TagsOf(k) = {"NoUUID", "NoCtd", "NoUpd", "NoName", "ChapM"}

\* C22: when the sync block is through, dirty is true exactly if the list of
\* file titles differs from the list that was loaded.
C22_DirtyIffListChanged ==
    pc = "synced" => (dirty <=> mangas # file)

\* the reads the database holds for the user, as read_get would return them
Persisted == ReadGet(tbl_read, tbl_mangas)

\* C23: when the sync block is through, every title the merge loop found on
\* both sides (by lower-cased name) has in the stored reads of the user the
\* chapter of its file copy.
C23_StoredChapterIsFileChapter ==
    pc = "synced" =>
        \A k \in MergedKeys : \A r \in 1..Len(Persisted) :
            Lower(Persisted[r].name) = k =>
                SameChapter(FileCopy(k).chapter, Persisted[r].chapter)

\* a call of create_manga that made no store call and changed nothing
Refused(c) ==
    /\ c.out = "ValueException"
    /\ ~c.commit
    /\ c.left = c.arg
    /\ c.rows_after = c.rows_before
    /\ c.reads_after = c.reads_before

ReadAdded(c) ==
    /\ Len(c.reads_after) = Len(c.reads_before) + 1
    /\ SubSeq(c.reads_after, 1, Len(c.reads_before)) = c.reads_before
    /\ c.reads_after[Len(c.reads_after)].manga_uuid = c.left.uuid

C30_MergedCopiesAgree ==
    pc \in {"sync", "synced"} =>
        \A k \in MergedKeys :
            /\ SameChapter(FileCopy(k).chapter, DbCopy(k).chapter)
            /\ FileCopy(k).updated = DbCopy(k).updated

\* the loop is through after a copy towards the file for one key and a copy
\* of a missing chapter towards the database for another
C30_Witness ==
    /\ pc = "sync"
    /\ common = {}
    /\ \E k \in MergedKeys : "UpdM" \in TagsOf(k)
    /\ \E k \in MergedKeys : "UpdD" \in TagsOf(k) /\ DbCopy(k).chapter = None

\* C26: every listed record of a contributing source that has a parseable
\* number candidate is accepted, under its key, with the maximum parsed
\* candidate as its number; only a record without one is skipped.
C26_OnlyMissingNumberRejects ==
    \A i \in Contributed : \A j \in 1..Len(Listing(i)) :
        HasParseable(Listing(i)[j]) =>
            /\ RecordKey(Listing(i)[j]) \in DOMAIN returned[i].m
            /\ NumberOf(Listing(i)[j]).ty # "none"
            /\ NumberOf(Listing(i)[j]).v = SetMax(Parsed(Listing(i)[j]))

\* C25: in the pool and threaded modes, when the fold is under way every
\* task has finished, the results list holds one element per configured
\* source, and no step changes the list.
C25_FoldAfterAllTasks ==
    [][(threading_mode \in {"pool", "threaded"} /\ pc' = "fold") =>
           (/\ \A i \in Sources : task'[i] # "wait"
            /\ Len(results') = Len(scrapers)
            /\ pc = "fold" => results' = results)]_vars

\* C27: started on a file and on reads with pairwise distinct lower-cased
\* names, the list of file titles and the file keep pairwise distinct
\* lower-cased names through every sequence of --add, --read and --sync.
C27_NamesStayDistinct ==
    DistinctNames(mangas) /\ DistinctNames(file)

\* a second run is through its sync block after a title was added and titles
\* of the database were appended
C27_Witness ==
    /\ run = 2
    /\ pc = "synced"
    /\ Len(mangas) > Len(file)
    /\ missing_file = <<>>
    /\ log # <<>>
    /\ \E i \in 1..Len(mangas) : mangas[i].name = <<"a">>

\* the step under way is the --read block
ReadStep == "read" \in opts' /\ "read" \notin opts

\* the chapter c is not below the chapter b it replaces
NotBelow(c, b) == b.ty = "none" \/ (c.ty # "none" /\ c.v >= b.v)

\* the updates of the step that the title m matches
UpdatesFor(m) ==
    {j \in 1..Len(new') : Matches(index'[new'[j]], m)}

====
